---- MODULE Spec2Model ----
(***************************************************************************)
(* createTurboResource (src/src/resource.ts): one resource binding, the    *)
(* createResource cell it drives, the turbo-query cache it talks to and    *)
(* the window listeners it installs.                                       *)
(*                                                                         *)
(* JavaScript runs one handler at a time, so every action below is one     *)
(* synchronous call chain, taken as a whole.  Work that the code postpones *)
(* (a startTransition callback, the settling of a promise that is already  *)
(* resolved, the reset of the cell's "scheduled" flag) waits in microQ and *)
(* is run by the Microtask action; callbacks handed to a caller-supplied   *)
(* transition function wait in deferredQ.                                  *)
(***************************************************************************)
EXTENDS Integers, Sequences, FiniteSets, TLC

\* ------------------------------------------------------------------ bounds
MaxFetch == 2       \* fetches the cache starts in one behaviour
MaxTime == 2        \* clock ticks in one behaviour
MaxDeferred == 1    \* callbacks a caller-supplied transition function holds
MaxCalls == 2       \* calls of the caller in one task, before the microtasks run

\* ------------------------------------------------------------------ values
Strings == {"A", "B", ""}

Str(x) == [t |-> "string", s |-> x]
Null == [t |-> "null", s |-> ""]
False == [t |-> "false", s |-> ""]
Undefined == [t |-> "undefined", s |-> ""]

\* TurboSolidKeyType: string | false | null | undefined
TurboSolidKeyType == {Str(x) : x \in Strings} \cup {Null, False, Undefined}

\* What one evaluation of the key accessor does: return a value, or throw.
TurboSolidKey == [throws : {FALSE}, val : TurboSolidKeyType] \cup {[throws |-> TRUE, val |-> Null]}

\* JavaScript's !key
Falsy(key) == key.t # "string" \/ key.s = ""

\* createResource's own test of its source: lookup == null || lookup === false
NoLookup(key) == key.t # "string"

NoItem == [k |-> "", v |-> -1]
FetchedItem(k) == [k |-> k, v |-> 0]
MutateValues == {1}

\* Promises of the data of key k: the pending promise of fetch number id, or
\* a settled one, resolved with what the cache holds for k or rejected.
NoPromise == [id |-> -1, k |-> "", st |-> "none"]
FetchPromise(id, k) == [id |-> id, k |-> k, st |-> "pending"]
ResolvedPromise(k) == [id |-> 0, k |-> k, st |-> "ok"]
RejectedPromise(k) == [id |-> 0, k |-> k, st |-> "err"]

NoHandle == [ev |-> "undefined", k |-> ""]
Noop == [ev |-> "noop", k |-> ""]
Listener(ev, k) == [ev |-> ev, k |-> k]
CacheEvents == {"mutated", "refetching", "resolved", "error"}
WindowEvents == {"focus", "online"}

\* createStale not called yet (timers: the intervals of createStale that are
\* set and not cleared); createFocusAvailable not called yet; no 'focus'
\* event yet.
NoStale == [on |-> FALSE, isStale |-> FALSE, staleIn |-> 0, key |-> Null, timers |-> 0]
NoAvailable == [on |-> FALSE, isAvailable |-> FALSE, availableIn |-> 0, timers |-> 0]
NoFocus == [at |-> -1, accepted |-> FALSE, acceptedAt |-> -1, acceptedKey |-> "", prevAt |-> -1,
            onlineAt |-> -1, onlinePrevAt |-> -1]

VARIABLES
  options,          \* the per-call options
  contextOptions,   \* the options of TurboContext
  resolved,         \* the operations and options the binding resolved when it was created
  given,            \* the per-call options as they were when the binding was created
  keyMemo,          \* the memoized key
  isRefetching,     \* the isRefetching signal
  cell,             \* the createResource cell: value, pr, error, scheduled
  unsub,            \* the six unsubscribe* variables
  cleanup,          \* the effect has an onCleanup registered
  listeners,        \* live listeners of this instance (cache and window)
  lastFocus,        \* the lastFocus signal
  cache,            \* turbo-query: items, resolvers, fetches
  microQ,           \* microtasks waiting
  deferredQ,        \* callbacks held by a caller-supplied transition
  now,              \* the clock
  disposed,         \* the owner of the binding is disposed
  calls,            \* calls made in the current task, microtasks not yet run
  staleness,        \* the signals of createStale, once it is called
  available,        \* the signals of createFocusAvailable, once it is called
  held,             \* the promise of refetch() the caller holds on to, if it keeps one
  seen,             \* the last 'focus' and 'online' events of window: when, whether accepted
  last              \* the last call: what it was, the cache operations it made

vars == <<options, contextOptions, resolved, given, keyMemo, isRefetching, cell, unsub, cleanup,
          listeners, lastFocus, cache, microQ, deferredQ, now, disposed, calls,
          staleness, available, held, seen, last>>

\* The state as one record, so that a call chain is a composition of steps.
Cur ==
  [keyMemo |-> keyMemo, isRefetching |-> isRefetching, cell |-> cell, unsub |-> unsub,
   cleanup |-> cleanup, listeners |-> listeners, lastFocus |-> lastFocus, cache |-> cache,
   microQ |-> microQ, deferredQ |-> deferredQ, now |-> now, disposed |-> disposed,
   calls |-> calls, staleness |-> staleness, available |-> available, held |-> held,
   seen |-> seen, last |-> last]

Assign(s) ==
  /\ keyMemo' = s.keyMemo
  /\ isRefetching' = s.isRefetching
  /\ cell' = s.cell
  /\ unsub' = s.unsub
  /\ cleanup' = s.cleanup
  /\ listeners' = s.listeners
  /\ lastFocus' = s.lastFocus
  /\ cache' = s.cache
  /\ microQ' = s.microQ
  /\ deferredQ' = s.deferredQ
  /\ now' = s.now
  /\ disposed' = s.disposed
  /\ calls' = s.calls
  /\ staleness' = s.staleness
  /\ available' = s.available
  /\ held' = s.held
  /\ seen' = s.seen
  /\ last' = s.last

\* The end of a call chain of the binding: the options object is left alone.
Commit(s) == Assign(s) /\ UNCHANGED <<options, contextOptions, resolved, given>>

\* A call chain stays within the bounds.
Fits(s) ==
  /\ Len(s.deferredQ) <= MaxDeferred
  /\ s.cache.fetches <= MaxFetch

\* The record of the last call is kept only where last.on is set.
\* (unsubscribed: the key changes right after a call of unsubscribe().)
Begin(s, act) ==
  IF s.last.on
    THEN [s EXCEPT !.last = [on |-> TRUE, act |-> act, ops |-> <<>>, by |-> {}, ret |-> "void",
                             awaits |-> NoPromise, threw |-> FALSE,
                             unsubscribed |-> act = "keyChange" /\ s.last.act = "unsubscribe"]]
    ELSE s
Log(s, op, k, arg) ==
  IF s.last.on
    THEN [s EXCEPT !.last.ops = Append(@, [op |-> op, k |-> k, arg |-> arg]),
                   !.last.by = @ \cup {[op |-> op, by |-> resolved.turbo[op]]}]
    ELSE s
Return(s, ret) == IF s.last.on THEN [s EXCEPT !.last.ret = ret] ELSE s
\* return await p: the promise of the async function settles as p does.
Awaits(s, p) == IF s.last.on THEN [s EXCEPT !.last.awaits = p] ELSE s
Saw(s, f) == IF s.last.on THEN [s EXCEPT !.seen = f] ELSE s
Threw(s, threw) == IF s.last.on /\ threw THEN [s EXCEPT !.last.threw = TRUE] ELSE s

\* ------------------------------------------------------------------ options
\* An option that is not given is "undefined" (focusInterval: -1).
NoOptions ==
  [stale |-> "undefined", transition |-> "undefined", refetchOnFocus |-> "undefined",
   refetchOnConnect |-> "undefined", focusInterval |-> -1, turbo |-> "undefined"]

\* JavaScript's a ?? b
Coalesce(a, b) == IF a # "undefined" THEN a ELSE b
CoalesceNum(a, b) == IF a # -1 THEN a ELSE b

DefaultFocusInterval == 5000

\* getTransition that takes false like undefined: if (!t) return startTransition
getTransitionFalsy(t) ==
  IF t \in {"undefined", "false"} THEN "startTransition"
  ELSE IF t = "true" THEN "startTransition"
  ELSE t

getTransition(t) ==
  IF t = "undefined" THEN "startTransition"
  ELSE IF t \in {"true", "false"} THEN (IF t = "true" THEN "startTransition" ELSE "undefined")
  ELSE t

\* The operations of the cache: options?.turbo?.x ?? contextOptions?.turbo?.x
\* ?? the default instance's; the result names the instance whose operation
\* is taken.
TurboOperations == {"subscribe", "query", "mutate", "forget", "abort", "expiration"}

turbo(o, c) ==
  IF o.turbo # "undefined" THEN "options"
  ELSE IF c.turbo # "undefined" THEN "context"
  ELSE "default"

\* The resolution with the context asked before the options.
ResolveContextFirst(o, c) ==
  [turbo |-> [x \in TurboOperations |-> turbo(c, o)],
   transition |-> getTransition(Coalesce(c.transition, o.transition)),
   refetchOnFocus |-> Coalesce(Coalesce(c.refetchOnFocus, o.refetchOnFocus), "true") = "true",
   refetchOnConnect |-> Coalesce(Coalesce(c.refetchOnConnect, o.refetchOnConnect), "true") = "true",
   focusInterval |-> CoalesceNum(CoalesceNum(c.focusInterval, o.focusInterval), DefaultFocusInterval)]

\* The constants createTurboResource computes from the options o and the
\* context c when the binding is created.
Resolve(o, c) ==
  [turbo |-> [x \in TurboOperations |-> turbo(o, c)],
   transition |-> getTransition(Coalesce(o.transition, c.transition)),
   refetchOnFocus |-> Coalesce(Coalesce(o.refetchOnFocus, c.refetchOnFocus), "true") = "true",
   refetchOnConnect |-> Coalesce(Coalesce(o.refetchOnConnect, c.refetchOnConnect), "true") = "true",
   focusInterval |-> CoalesceNum(CoalesceNum(o.focusInterval, c.focusInterval), DefaultFocusInterval)]

transition == resolved.transition
refetchOnFocus == resolved.refetchOnFocus
refetchOnConnect == resolved.refetchOnConnect
focusInterval == resolved.focusInterval

\* { stale: dflt, ...contextOptions, ...options }.stale
QueryStale(dflt) == Coalesce(options.stale, Coalesce(contextOptions.stale, dflt)) = "true"

\* ------------------------------------------------------------------ the cell (createResource)
Loading(s) == s.cell.pr # NoPromise

Settled(p) == p.st \in {"ok", "err"}

\* p.then(loadEnd): the cell takes the outcome of p, resolved (ok) or
\* rejected, if p is still its promise.
CellLoadEnd(s, p, ok) ==
  IF s.cell.pr # p THEN s
  ELSE IF ok
    THEN [s EXCEPT !.cell.pr = NoPromise, !.cell.error = FALSE, !.cell.value = FetchedItem(p.k)]
    ELSE [s EXCEPT !.cell.pr = NoPromise, !.cell.error = TRUE]

\* The cell starts waiting for p.
CellTake(s, p) ==
  [s EXCEPT !.cell.pr = p, !.cell.scheduled = TRUE,
            !.microQ = IF Settled(p)
                         THEN @ \o <<[t |-> "unschedule", p |-> NoPromise, item |-> NoItem],
                                     [t |-> "settle", p |-> p, item |-> NoItem]>>
                         ELSE Append(@, [t |-> "unschedule", p |-> NoPromise, item |-> NoItem])]

\* A load that finds no key: loadEnd(pr, value).
CellLoadNothing(s) ==
  [s EXCEPT !.cell.pr = NoPromise, !.cell.error = FALSE, !.cell.scheduled = FALSE]

\* A loader that asks the cache for the key although it is given a promise.
CellRefetchQueries(s, p) ==
  IF s.cell.scheduled THEN s
  ELSE IF NoLookup(s.keyMemo) THEN CellLoadNothing(s)
  ELSE CellTake(Log(s, "query", s.keyMemo.s, "stale"), p)

\* actions.refetch(promise): the loader is run with refetching = promise and
\* returns that promise.
CellRefetch(s, p) ==
  IF s.cell.scheduled THEN s
  ELSE IF NoLookup(s.keyMemo) THEN CellLoadNothing(s)
  ELSE CellTake(s, p)

\* actions.mutate(() => item)
CellMutate(s, it) == [s EXCEPT !.cell.value = it]

\* ------------------------------------------------------------------ the transition adapter
\* The callbacks the code hands to the transition function.
RunThunk(s, th) ==
  IF th.t = "refetch" THEN CellRefetch(s, th.p) ELSE CellMutate(s, th.item)

\* The callback is called where it stands, whatever transition is.
ThroughNothing(s, th) == RunThunk(s, th)

\* if (transition) transition(fn) else fn()
Through(s, th) ==
  IF transition = "undefined" THEN RunThunk(s, th)
  ELSE IF transition = "startTransition" THEN [s EXCEPT !.microQ = Append(@, th)]
  ELSE [s EXCEPT !.deferredQ = Append(@, th)]

\* ------------------------------------------------------------------ the handlers of the cache's events
OnMutated(s, it) == Through(s, [t |-> "mutate", p |-> NoPromise, item |-> it])

\* A 'refetching' handler that leaves the isRefetching signal alone.
OnRefetchingSilent(s, p) ==
  IF ~Loading(s) THEN Through(s, [t |-> "refetch", p |-> p, item |-> NoItem]) ELSE s

\* A 'refetching' handler without if (!item.loading).
OnRefetchingAlways(s, p) ==
  Through([s EXCEPT !.isRefetching = TRUE], [t |-> "refetch", p |-> p, item |-> NoItem])

OnRefetching(s, p) ==
  LET s1 == [s EXCEPT !.isRefetching = TRUE]
  IN IF ~Loading(s1) THEN Through(s1, [t |-> "refetch", p |-> p, item |-> NoItem]) ELSE s1

OnResolved(s) == [s EXCEPT !.isRefetching = FALSE]

\* An 'error' handler that leaves the isRefetching signal alone.
OnErrorSilent(s) == s

OnError(s) == [s EXCEPT !.isRefetching = FALSE]

\* The cache dispatches ev for key k: the handler of this instance runs if its
\* listener is registered.
Emit(s, k, ev, p, it) ==
  IF Listener(ev, k) \notin s.listeners THEN s
  ELSE IF ev = "mutated" THEN OnMutated(s, it)
  ELSE IF ev = "refetching" THEN OnRefetching(s, p)
  ELSE IF ev = "resolved" THEN OnResolved(s)
  ELSE OnError(s)

\* ------------------------------------------------------------------ the cache (turbo-query)
\* An entry of the items cache; its item is written FetchedItem(k), what the
\* cache holds for k.
NoEntry == [has |-> FALSE, expiresAt |-> 0]

\* The expiration times a fetcher's result is stored with.
ExpirationChoices == {0, 1}

\* query's inner refetch: an in-flight fetch of k is shared, a new one is
\* announced with 'refetching'.
CacheRefetch(s, k) ==
  IF s.cache.resolvers[k] # 0
    THEN [s |-> s, p |-> FetchPromise(s.cache.resolvers[k], k)]
    ELSE LET id == s.cache.fetches + 1
             p == FetchPromise(id, k)
             s1 == [s EXCEPT !.cache.fetches = id, !.cache.resolvers[k] = id]
         IN [s |-> Emit(s1, k, "refetching", p, NoItem), p |-> p]

\* query(k, { stale }) as one party of the cache calls it.
CacheQuery(s, k, stale) ==
  LET c == s.cache.items[k]
  IN IF c.has /\ c.expiresAt > s.now THEN [s |-> s, p |-> ResolvedPromise(k)]
     ELSE IF c.has /\ stale THEN [s |-> CacheRefetch(s, k).s, p |-> ResolvedPromise(k)]
     ELSE CacheRefetch(s, k)

CacheMutate(s, k, v) ==
  LET it == [k |-> k, v |-> v]
      c == s.cache.items[k]
      s1 == [s EXCEPT !.cache.items[k] =
                        [has |-> TRUE, expiresAt |-> IF c.has THEN c.expiresAt ELSE s.now]]
  IN Emit(s1, k, "mutated", NoPromise, it)

CacheForget(s, k) == [s EXCEPT !.cache.items[k] = NoEntry]

\* abort(k): the in-flight fetch of k is dropped and its promise rejects.
CacheAbort(s, k) ==
  LET id == s.cache.resolvers[k]
  IN IF id = 0 THEN s
     ELSE [s EXCEPT !.cache.resolvers[k] = 0,
                    !.microQ = Append(@, [t |-> "reject", p |-> FetchPromise(id, k), item |-> NoItem])]

CacheExpiration(s, k) == IF s.cache.items[k].has THEN s.cache.items[k].expiresAt ELSE -1

\* subscribe(k, ev, handler): a subscriber to 'refetching' is told at once of
\* a fetch in flight.
CacheSubscribe(s, k, ev) ==
  LET s1 == [s EXCEPT !.listeners = @ \cup {Listener(ev, k)}]
  IN IF ev = "refetching" /\ s1.cache.resolvers[k] # 0
       THEN Emit(s1, k, "refetching", FetchPromise(s1.cache.resolvers[k], k), NoItem)
       ELSE s1

\* Promise p is settled from now on, for whoever holds it.
SettleIn(q, p, ok) ==
  [i \in DOMAIN q |->
     IF q[i].p = p THEN [q[i] EXCEPT !.p = IF ok THEN ResolvedPromise(p.k) ELSE RejectedPromise(p.k)]
     ELSE q[i]]

\* The fetch behind promise p ends: the cache stores the item and tells the
\* subscribers; the cell, if it waits for p, takes the outcome.
FetchEnd(s, p, ok, e) ==
  LET k == p.k
      s1 == [s EXCEPT !.cache.resolvers[k] = 0,
                      !.held = IF @ = p THEN (IF ok THEN ResolvedPromise(k) ELSE RejectedPromise(k))
                               ELSE @,
                      !.microQ = SettleIn(@, p, ok),
                      !.deferredQ = SettleIn(@, p, ok),
                      !.cache.items[k] = IF ok THEN [has |-> TRUE, expiresAt |-> s.now + e]
                                             ELSE @]
      s2 == Emit(s1, k, IF ok THEN "resolved" ELSE "error", NoPromise, NoItem)
  IN CellLoadEnd(s2, p, ok)

\* ------------------------------------------------------------------ createTurboResource
\* The memo without its try / catch: the error of the accessor goes on.
keyMemoFnNoCatch(k) ==
  IF k.throws THEN [threw |-> TRUE, val |-> Null] ELSE [threw |-> FALSE, val |-> k.val]

\* keyMemo: try { return key() } catch { return null }
keyMemoFn(k) == IF k.throws THEN [threw |-> FALSE, val |-> Null] ELSE [threw |-> FALSE, val |-> k.val]

\* A loader that asks with stale: true whatever the options say.
LoaderStaleOnly(s) ==
  LET k == s.keyMemo.s
      r == CacheQuery(Log(s, "query", k, "stale"), k, TRUE)
  IN CellTake(r.s, r.p)

\* The loader given to createResource, run for a change of the key.
Loader(s) ==
  LET k == s.keyMemo.s
      r == CacheQuery(Log(s, "query", k, IF QueryStale("true") THEN "stale" ELSE "fresh"),
                      k, QueryStale("true"))
  IN CellTake(r.s, r.p)

\* createResource's own computation on the key: load(false).
CellLoad(s) ==
  IF NoLookup(s.keyMemo) THEN CellLoadNothing(s) ELSE Loader([s EXCEPT !.cell.scheduled = FALSE])

\* localMutate that also writes the cell itself.
localMutateWritesCell(s, v) ==
  IF Falsy(s.keyMemo) THEN s
  ELSE CellMutate(CacheMutate(Log(s, "mutate", s.keyMemo.s, "value"), s.keyMemo.s, v),
                  [k |-> s.keyMemo.s, v |-> v])

localMutate(s, v) ==
  IF Falsy(s.keyMemo) THEN s
  ELSE CacheMutate(Log(s, "mutate", s.keyMemo.s, "value"), s.keyMemo.s, v)

\* localRefetch that asks with stale: false whatever the options say.
localRefetchFreshOnly(s) ==
  IF Falsy(s.keyMemo) THEN Return(s, "undefined")
  ELSE LET k == s.keyMemo.s
           r == CacheQuery(Log(s, "query", k, "fresh"), k, FALSE)
       IN Return(Through(r.s, [t |-> "refetch", p |-> r.p, item |-> NoItem]), "promise")

\* localRefetch that takes every refetch for a 'focus' event.
localRefetchStamps(s) ==
  IF Falsy(s.keyMemo) THEN Return(s, "undefined")
  ELSE LET k == s.keyMemo.s
           r == CacheQuery(Log(s, "query", k, IF QueryStale("false") THEN "stale" ELSE "fresh"),
                           k, QueryStale("false"))
       IN Awaits(Return(Through([r.s EXCEPT !.lastFocus = s.now],
                                [t |-> "refetch", p |-> r.p, item |-> NoItem]), "promise"),
                 r.p)

\* localRefetch without return await promise.
localRefetchNoAwait(s) ==
  IF Falsy(s.keyMemo) THEN Return(s, "undefined")
  ELSE LET k == s.keyMemo.s
           r == CacheQuery(Log(s, "query", k, IF QueryStale("false") THEN "stale" ELSE "fresh"),
                           k, QueryStale("false"))
       IN Return(Through(r.s, [t |-> "refetch", p |-> r.p, item |-> NoItem]), "undefined")

localRefetch(s) ==
  IF Falsy(s.keyMemo) THEN Return(s, "undefined")
  ELSE LET k == s.keyMemo.s
           r == CacheQuery(Log(s, "query", k, IF QueryStale("false") THEN "stale" ELSE "fresh"),
                           k, QueryStale("false"))
       IN Awaits(Return(Through(r.s, [t |-> "refetch", p |-> r.p, item |-> NoItem]), "promise"),
                 r.p)

Call(s, h) == IF h \in {NoHandle, Noop} THEN s ELSE [s EXCEPT !.listeners = @ \ {h}]

\* localUnsubscribe that leaves the 'error' subscription.
localUnsubscribeNoErrors(s) ==
  Call(Call(Call(Call(Call(s, s.unsub.Mutations), s.unsub.Refetching), s.unsub.FocusRefetch),
       s.unsub.ConnectRefetch), s.unsub.Resolved)

\* localUnsubscribe without the two window listeners.
localUnsubscribeCacheOnly(s) ==
  Call(Call(Call(Call(s, s.unsub.Mutations), s.unsub.Refetching), s.unsub.Resolved), s.unsub.Errors)

localUnsubscribe(s) ==
  Call(Call(Call(Call(Call(Call(s, s.unsub.Mutations), s.unsub.Refetching), s.unsub.FocusRefetch),
       s.unsub.ConnectRefetch), s.unsub.Resolved), s.unsub.Errors)

\* onFocus and onConnect that add their listener whatever the options say.
onFocusAlways(s) ==
  [s EXCEPT !.listeners = @ \cup {Listener("focus", s.keyMemo.s)},
            !.unsub.FocusRefetch = Listener("focus", s.keyMemo.s)]

onConnectAlways(s) ==
  [s EXCEPT !.listeners = @ \cup {Listener("online", s.keyMemo.s)},
            !.unsub.ConnectRefetch = Listener("online", s.keyMemo.s)]

\* onFocus with a throttle of each key's own: the listener of a new key
\* starts with the interval run out.
onFocusOwnThrottle(s) ==
  IF refetchOnFocus
    THEN [s EXCEPT !.listeners = @ \cup {Listener("focus", s.keyMemo.s)},
                   !.unsub.FocusRefetch = Listener("focus", s.keyMemo.s),
                   !.lastFocus = s.now - focusInterval - 1]
    ELSE [s EXCEPT !.unsub.FocusRefetch = Noop]

\* onFocus / onConnect: the listener is added to window; the key names the
\* run of the effect that added it.
onFocus(s) ==
  IF refetchOnFocus
    THEN [s EXCEPT !.listeners = @ \cup {Listener("focus", s.keyMemo.s)},
                   !.unsub.FocusRefetch = Listener("focus", s.keyMemo.s)]
    ELSE [s EXCEPT !.unsub.FocusRefetch = Noop]

onConnect(s) ==
  IF refetchOnConnect
    THEN [s EXCEPT !.listeners = @ \cup {Listener("online", s.keyMemo.s)},
                   !.unsub.ConnectRefetch = Listener("online", s.keyMemo.s)]
    ELSE [s EXCEPT !.unsub.ConnectRefetch = Noop]

\* A handler that accepts every 'focus' event.
rawHandlerNoThrottle(s) == localRefetch([s EXCEPT !.lastFocus = s.now])

\* A handler that accepts an event at the end of the interval already.
rawHandlerInclusive(s) ==
  IF s.now - s.lastFocus >= focusInterval
    THEN localRefetch([s EXCEPT !.lastFocus = s.now])
    ELSE s

\* A handler that refetches and leaves lastFocus as it was.
rawHandlerKeepsStamp(s) ==
  IF s.now - s.lastFocus > focusInterval THEN localRefetch(s) ELSE s

\* rawHandler of onFocus
rawHandler(s) ==
  IF s.now - s.lastFocus > focusInterval
    THEN localRefetch([s EXCEPT !.lastFocus = s.now])
    ELSE s

\* subscribe that leaves a subscription made before as it is.
subscribeOnce(s, ev, name) ==
  IF s.unsub[name] # NoHandle THEN s
  ELSE LET k == s.keyMemo.s
           s1 == CacheSubscribe(Log(s, "subscribe", k, ev), k, ev)
       IN [s1 EXCEPT !.unsub[name] = Listener(ev, k)]

\* subscribe(key, ev, handler) of the effect, its unsubscribe function kept
subscribe(s, ev, name) ==
  LET k == s.keyMemo.s
      s1 == CacheSubscribe(Log(s, "subscribe", k, ev), k, ev)
  IN [s1 EXCEPT !.unsub[name] = Listener(ev, k)]

\* onCleanup(() => localUnsubscribe()), run before the effect runs again and
\* when the owner is disposed.
\* An effect that registers no cleanup.
EffectCleanupNone(s) == s

EffectCleanup(s) ==
  IF s.cleanup THEN [localUnsubscribe(s) EXCEPT !.cleanup = FALSE] ELSE s

\* createFocusAvailable(precision): isAvailable starts as the test of the
\* moment, availableIn as focusInterval; the interval is set.
createFocusAvailable(s) ==
  [s EXCEPT !.available =
     [on |-> TRUE,
      isAvailable |-> s.now - s.lastFocus > focusInterval,
      availableIn |-> focusInterval,
      timers |-> 1]]

\* The interval's function without the floor at zero.
availableIntervalNoFloor(s) ==
  [s EXCEPT !.available.availableIn = focusInterval - (s.now - s.lastFocus),
            !.available.isAvailable = s.now - s.lastFocus > focusInterval]

\* The function the interval of createFocusAvailable runs.
availableInterval(s) ==
  LET availability == focusInterval - (s.now - s.lastFocus)
  IN [s EXCEPT !.available.availableIn =
                 IF availability >= 0 THEN availability
                 ELSE IF @ > 0 THEN 0 ELSE @,
               !.available.isAvailable = s.now - s.lastFocus > focusInterval]

\* onCleanup(() => clearInterval(interval)) of createFocusAvailable, run when
\* the owner is disposed.
AvailableCleanup(s) == [s EXCEPT !.available.timers = 0]

\* The body of the effect without setIsRefetching(false).
EffectBodyNoReset(s) ==
  IF Falsy(s.keyMemo) THEN s
  ELSE LET s2 == subscribe(s, "mutated", "Mutations")
           s3 == subscribe(s2, "refetching", "Refetching")
           s4 == subscribe(s3, "resolved", "Resolved")
           s5 == subscribe(s4, "error", "Errors")
           s6 == onConnect(onFocus(s5))
       IN [s6 EXCEPT !.cleanup = TRUE]

\* The body of the effect on keyMemo.
EffectBody(s) ==
  LET s1 == [s EXCEPT !.isRefetching = FALSE]
  IN IF Falsy(s1.keyMemo) THEN s1
     ELSE LET s2 == subscribe(s1, "mutated", "Mutations")
              s3 == subscribe(s2, "refetching", "Refetching")
              s4 == subscribe(s3, "resolved", "Resolved")
              s5 == subscribe(s4, "error", "Errors")
              s6 == onConnect(onFocus(s5))
          IN [s6 EXCEPT !.cleanup = TRUE]

SubscriptionEffect(s) == EffectBody(EffectCleanup(s))

\* localForget without if (!key) return
localForgetUnguarded(s) == CacheForget(Log(s, "forget", s.keyMemo.s, ""), s.keyMemo.s)

\* localForget that also empties the cell and loads the key again.
localForgetReloads(s) ==
  IF Falsy(s.keyMemo) THEN s
  ELSE LET s1 == CacheForget(Log(s, "forget", s.keyMemo.s, ""), s.keyMemo.s)
       IN CellLoad([s1 EXCEPT !.cell.value = NoItem])

localForget(s) ==
  IF Falsy(s.keyMemo) THEN s
  ELSE CacheForget(Log(s, "forget", s.keyMemo.s, ""), s.keyMemo.s)

localAbort(s) ==
  IF Falsy(s.keyMemo) THEN s
  ELSE CacheAbort(Log(s, "abort", s.keyMemo.s, ""), s.keyMemo.s)

localExpiration(s) ==
  IF Falsy(s.keyMemo) THEN Return(s, "undefined")
  ELSE LET e == CacheExpiration(s, s.keyMemo.s)
       IN Return(Log(s, "expiration", s.keyMemo.s, ""), IF e = -1 THEN "undefined" ELSE "date")

\* createStale(precision): the two signals get their first values from the
\* expiration of the key of the moment; the effect then starts the interval
\* for that key.
createStale(s) ==
  LET initialKey == s.keyMemo
      expiresAt == IF Falsy(initialKey) THEN -1 ELSE CacheExpiration(s, initialKey.s)
      expirationIn == expiresAt - s.now
  IN [s EXCEPT !.staleness =
        [on |-> TRUE,
         isStale |-> IF expiresAt = -1 THEN TRUE ELSE expiresAt < s.now,
         staleIn |-> IF expiresAt # -1 /\ expirationIn >= 0 THEN expirationIn ELSE 0,
         key |-> initialKey,
         timers |-> 1]]

\* An effect of createStale that registers no cleanup.
StaleCleanupNone(s) == s

\* onCleanup(() => clearInterval(interval)), run before the effect of
\* createStale runs again and when the owner is disposed.
StaleCleanup(s) ==
  [s EXCEPT !.staleness.timers = IF @ > 0 THEN @ - 1 ELSE 0]

\* The effect of createStale on(keyMemo): the interval of the key before is
\* cleared and one is set for the key of now; the signals are not written.
StaleEffect(s) ==
  IF s.staleness.on
    THEN [StaleCleanup(s) EXCEPT !.staleness.key = s.keyMemo, !.staleness.timers = @ + 1]
    ELSE s

\* The interval's function that takes a key without expiration for stale.
staleIntervalResets(s) ==
  LET key == s.staleness.key
      expiresAt == IF Falsy(key) THEN -1 ELSE CacheExpiration(s, key.s)
      expirationIn == expiresAt - s.now
  IN IF expiresAt = -1 THEN [s EXCEPT !.staleness.staleIn = 0, !.staleness.isStale = TRUE]
     ELSE [s EXCEPT !.staleness.staleIn =
                      IF expirationIn >= 0 THEN expirationIn
                      ELSE IF @ > 0 THEN 0 ELSE @,
                    !.staleness.isStale = expiresAt < s.now]

\* The interval's function with isStale true from the expiration on.
staleIntervalInclusive(s) ==
  LET key == s.staleness.key
      expiresAt == IF Falsy(key) THEN -1 ELSE CacheExpiration(s, key.s)
  IN IF expiresAt = -1 THEN s
     ELSE [s EXCEPT !.staleness.staleIn = IF expiresAt - s.now >= 0 THEN expiresAt - s.now ELSE 0,
                    !.staleness.isStale = expiresAt <= s.now]

\* The function the interval runs, for the key the effect saw.
staleInterval(s) ==
  LET key == s.staleness.key
      expiresAt == IF Falsy(key) THEN -1 ELSE CacheExpiration(s, key.s)
      expirationIn == expiresAt - s.now
  IN IF expiresAt = -1 THEN s
     ELSE [s EXCEPT !.staleness.staleIn =
                      IF expirationIn >= 0 THEN expirationIn
                      ELSE IF @ > 0 THEN 0 ELSE @,
                    !.staleness.isStale = expiresAt < s.now]

\* The key accessor is evaluated again with outcome k: the memo, then the
\* computation of createResource, then the effect.
KeyChange(s, k) ==
  LET m == keyMemoFn(k)
      s1 == Threw(s, m.threw)
  IN IF m.threw \/ m.val = s.keyMemo THEN s1
     ELSE StaleEffect(SubscriptionEffect(CellLoad([s1 EXCEPT !.keyMemo = m.val])))

\* One microtask: a startTransition callback, the reaction of the cell to a
\* promise that was already settled, the reset of the cell's scheduled flag,
\* or the rejection of an aborted fetch.
RunMicrotask(s, th) ==
  IF th.t \in {"refetch", "mutate"} THEN RunThunk(s, th)
  ELSE IF th.t = "settle" THEN CellLoadEnd(s, th.p, th.p.st = "ok")
  ELSE IF th.t = "reject" THEN FetchEnd(s, th.p, FALSE, 0)
  ELSE [s EXCEPT !.cell.scheduled = FALSE]

\* The microtask checkpoint at the end of a task: the queue is run, first in
\* first out, until it is empty.
RECURSIVE Drain(_)
Drain(s) ==
  IF s.microQ = <<>> THEN s
  ELSE Drain(RunMicrotask([s EXCEPT !.microQ = Tail(@)], Head(s.microQ)))

\* ------------------------------------------------------------------ initial states
\* The options a binding is created with: none given, or transition: false.
OptionChoices ==
  { NoOptions,
    [NoOptions EXCEPT !.transition = "false"] }

\* transition: a function of the caller
TransitionChoices == { [NoOptions EXCEPT !.transition = "fn"] }

\* stale given in the options, in the context, in both or in neither
StaleChoices == {"undefined", "true", "false"}

ContextChoices == { NoOptions }

\* focusInterval in the units of the clock
FocusIntervalChoices == {0, 1}

FocusOptionChoices ==
  {[NoOptions EXCEPT !.focusInterval = t] : t \in FocusIntervalChoices}
    \cup {[NoOptions EXCEPT !.focusInterval = 0, !.refetchOnFocus = x] : x \in {"true", "false"}}

FocusContextChoices == {NoOptions, [NoOptions EXCEPT !.refetchOnFocus = "false"]}

ConnectOptionChoices ==
  {[NoOptions EXCEPT !.refetchOnConnect = x] : x \in {"undefined", "true", "false"}}

ConnectContextChoices == {NoOptions, [NoOptions EXCEPT !.refetchOnConnect = "false"]}

FocusKeyChoices == [throws : {FALSE}, val : {Str("A"), Null}]

\* Outcomes of the accessor with the empty string among them.
LogKeyChoices ==
  [throws : {FALSE}, val : {Str("A"), Str(""), Null, False, Undefined}]
    \cup {[throws |-> TRUE, val |-> Null]}

StaleKeyChoices ==
  [throws : {FALSE}, val : {Str("A"), Str(""), Null}] \cup {[throws |-> TRUE, val |-> Null]}

\* The outcomes of the key accessor that the behaviours go through: two
\* keys, each way of having no key, and a throw.
KeyChoices ==
  [throws : {FALSE}, val : {Str("A"), Str("B"), Null, False, Undefined}]
    \cup {[throws |-> TRUE, val |-> Null]}

ExpiryKeyChoices == [throws : {FALSE}, val : {Str("A"), Str("B"), Null}]

Blank ==
  [keyMemo |-> Null, isRefetching |-> FALSE,
   cell |-> [value |-> NoItem, pr |-> NoPromise, error |-> FALSE, scheduled |-> FALSE],
   unsub |-> [Mutations |-> NoHandle, Refetching |-> NoHandle, FocusRefetch |-> NoHandle,
              ConnectRefetch |-> NoHandle, Resolved |-> NoHandle, Errors |-> NoHandle],
   cleanup |-> FALSE, listeners |-> {}, lastFocus |-> 0,
   cache |-> [items |-> [k \in Strings |-> NoEntry], resolvers |-> [k \in Strings |-> 0],
              fetches |-> 0],
   microQ |-> <<>>, deferredQ |-> <<>>, now |-> 0, disposed |-> FALSE,
   calls |-> 0,
   staleness |-> NoStale,
   available |-> NoAvailable,
   held |-> NoPromise,
   seen |-> NoFocus,
   last |-> [on |-> FALSE, act |-> "create", ops |-> <<>>, by |-> {}, ret |-> "void",
             awaits |-> NoPromise, threw |-> FALSE, unsubscribed |-> FALSE]]

\* createTurboResource(key, options) with the first outcome k of the accessor.
Create(k, on) ==
  LET m == keyMemoFn(k)
      s0 == Begin([Blank EXCEPT !.keyMemo = m.val, !.last.on = on],
                  IF k.throws THEN "keyThrows" ELSE "create")
      s1 == Threw(s0, m.threw)
      s2 == SubscriptionEffect(CellLoad(s1))
  IN [s2 EXCEPT !.calls = IF s2.microQ = <<>> THEN 0 ELSE 1]

Created(s) ==
  /\ resolved = Resolve(options, contextOptions)
  /\ given = options
  /\ keyMemo = s.keyMemo
  /\ isRefetching = s.isRefetching
  /\ cell = s.cell
  /\ unsub = s.unsub
  /\ cleanup = s.cleanup
  /\ listeners = s.listeners
  /\ lastFocus = s.lastFocus
  /\ cache = s.cache
  /\ microQ = s.microQ
  /\ deferredQ = s.deferredQ
  /\ now = s.now
  /\ disposed = s.disposed
  /\ calls = s.calls
  /\ staleness = s.staleness
  /\ available = s.available
  /\ held = s.held
  /\ seen = s.seen
  /\ last = s.last

Init ==
  /\ options \in OptionChoices
  /\ contextOptions \in ContextChoices
  /\ \E k \in KeyChoices : Created(Create(k, FALSE))

\* The calls are recorded; keys A and B, and no key; with and without
\* startTransition.
InitUnsubscribe ==
  /\ options \in OptionChoices
  /\ contextOptions = NoOptions
  /\ \E k \in ExpiryKeyChoices : Created(Create(k, TRUE))

\* The calls are recorded; keys A and B, and no key.
InitExpiry ==
  /\ options = NoOptions
  /\ contextOptions = NoOptions
  /\ \E k \in ExpiryKeyChoices : Created(Create(k, TRUE))

\* The calls are recorded; stale is given or not, in the options and in the
\* context, and the throttle of 'focus' is short.
InitRefetch ==
  /\ options \in {[NoOptions EXCEPT !.stale = x, !.focusInterval = 0] : x \in StaleChoices}
  /\ contextOptions \in {[NoOptions EXCEPT !.stale = x] : x \in StaleChoices}
  /\ \E k \in FocusKeyChoices : Created(Create(k, TRUE))

\* The calls are recorded; refetchOnConnect is on by default or switched
\* off, by the options or the context.
InitConnect ==
  /\ options \in ConnectOptionChoices
  /\ contextOptions \in ConnectContextChoices
  /\ \E k \in FocusKeyChoices : Created(Create(k, TRUE))

\* The calls are recorded; the throttle of 'focus' is short, refetchOnFocus
\* is on by default or switched off, by the options or the context.
InitFocus ==
  /\ options \in FocusOptionChoices
  /\ contextOptions \in FocusContextChoices
  /\ \E k \in FocusKeyChoices : Created(Create(k, TRUE))

\* The calls are recorded.
InitLog ==
  /\ options = NoOptions
  /\ contextOptions \in ContextChoices
  /\ \E k \in LogKeyChoices : Created(Create(k, TRUE))

\* The calls are recorded; stale is given or not, in the options and in the context.
InitStale ==
  /\ options \in {[NoOptions EXCEPT !.stale = x] : x \in StaleChoices}
  /\ contextOptions \in {[NoOptions EXCEPT !.stale = x] : x \in StaleChoices}
  /\ \E k \in StaleKeyChoices : Created(Create(k, TRUE))

\* transition as it can be given: not at all, true, false or a function, in
\* the options and in the context.
TransitionValues == {"undefined", "true", "false", "fn"}

\* The calls are recorded; transition is given or not, in the options and in
\* the context.
InitResolve ==
  /\ options \in {[NoOptions EXCEPT !.transition = x] : x \in TransitionValues}
  /\ contextOptions \in {[NoOptions EXCEPT !.transition = x] : x \in TransitionValues}
  /\ \E k \in FocusKeyChoices : Created(Create(k, TRUE))

\* A focusInterval below zero: every 'focus' event is more than that after
\* the last one, also one of the same millisecond.
NoThrottle == -2

\* One option at a time is given or not, in the options and in the context:
\* the cache instance, transition, refetchOnFocus, refetchOnConnect,
\* focusInterval.
LayerChoices ==
  {[NoOptions EXCEPT !.turbo = x] : x \in {"undefined", "given"}}
    \cup {[NoOptions EXCEPT !.transition = x] : x \in {"undefined", "true", "false"}}
    \cup {[NoOptions EXCEPT !.refetchOnFocus = x] : x \in {"undefined", "true", "false"}}
    \cup {[NoOptions EXCEPT !.refetchOnConnect = x] : x \in {"undefined", "true", "false"}}
    \cup {[NoOptions EXCEPT !.focusInterval = x] : x \in {-1, NoThrottle, 0}}

\* The option that o gives, if one
OptionOf(o) == {f \in DOMAIN NoOptions : o[f] # NoOptions[f]}

\* The options object after the caller has written every option into it.
AllGiven ==
  [stale |-> "undefined", transition |-> "false", refetchOnFocus |-> "false",
   refetchOnConnect |-> "false", focusInterval |-> NoThrottle, turbo |-> "given"]

\* The calls are recorded; the options and the context give the same option,
\* or one of them or neither gives it.
InitOptions ==
  /\ options \in LayerChoices
  /\ contextOptions \in LayerChoices
  /\ OptionOf(options) \cup OptionOf(contextOptions) \in
       {{}} \cup {{f} : f \in DOMAIN NoOptions}
  /\ \E k \in FocusKeyChoices : Created(Create(k, TRUE))

InitTransition ==
  /\ options \in TransitionChoices
  /\ contextOptions \in ContextChoices
  /\ \E k \in KeyChoices : Created(Create(k, FALSE))

\* ------------------------------------------------------------------ actions
\* A step of the caller: it may follow other calls in the same task, before
\* the microtasks they left are run.
Do(s) ==
  /\ microQ = <<>> \/ calls < MaxCalls
  /\ Fits(s)
  /\ Commit([s EXCEPT !.calls = IF s.microQ = <<>> THEN 0 ELSE @ + 1])

\* The microtask checkpoint.
Checkpoint(s) == Fits(s) /\ Commit([s EXCEPT !.calls = 0])

\* A step that begins a task of its own: no microtask is waiting.
Task(s) == microQ = <<>> /\ Do(s)

SetKeyIn(K) ==
  /\ ~disposed
  /\ \E k \in K :
       LET act == IF k.throws THEN "keyThrows"
                  ELSE IF k.val # keyMemo THEN "keyChange" ELSE "keySame"
           s == KeyChange(Begin(Cur, act), k)
       IN Do(s)

SetKey == SetKeyIn(KeyChoices)

\* The accessor with the empty string among its outcomes.
SetLogKey == SetKeyIn(LogKeyChoices)

SetStaleKey == SetKeyIn(StaleKeyChoices)

SetFocusKey == SetKeyIn(FocusKeyChoices)

SetExpiryKey == SetKeyIn(ExpiryKeyChoices)

Mutate == ~disposed /\ \E v \in MutateValues : Do(localMutate(Begin(Cur, "mutate"), v))

Refetch == ~disposed /\ Do(localRefetch(Begin(Cur, "refetch")))

\* refetch() by a caller that keeps the promise it returns.
RefetchAwait ==
  /\ ~disposed
  /\ LET s == localRefetch(Begin(Cur, "refetchAwait"))
     IN Do([s EXCEPT !.held = s.last.awaits])

Forget == ~disposed /\ Do(localForget(Begin(Cur, "forget")))

Abort == ~disposed /\ Do(localAbort(Begin(Cur, "abort")))

\* unsubscribe() stays in the caller's hands after the owner is disposed.
Unsubscribe == Do(localUnsubscribe(Begin(Cur, "unsubscribe")))

Expiration == ~disposed /\ Do(localExpiration(Begin(Cur, "expiration")))

\* The caller writes into the options object it gave to createTurboResource.
SetOptions ==
  /\ ~disposed
  /\ microQ = <<>> \/ calls < MaxCalls
  /\ options # AllGiven
  /\ options' = AllGiven
  /\ Assign([Begin(Cur, "setOptions") EXCEPT !.calls = IF microQ = <<>> THEN 0 ELSE @ + 1])
  /\ UNCHANGED <<contextOptions, resolved, given>>

\* createStale is called, once; its interval fires until the owner is
\* disposed.
CreateStale == ~disposed /\ ~staleness.on /\ Do(createStale(Begin(Cur, "createStale")))

StalePoll == staleness.timers > 0 /\ Task(staleInterval(Begin(Cur, "poll")))

\* createFocusAvailable is called, once; its interval fires until it is
\* cleared.
CreateFocusAvailable ==
  /\ ~disposed
  /\ ~available.on
  /\ Do(createFocusAvailable(Begin(Cur, "createFocusAvailable")))

AvailablePoll == available.timers > 0 /\ Task(availableInterval(Begin(Cur, "availablePoll")))

\* The owner of the binding is disposed: the cleanups of the effects and of
\* createFocusAvailable run.
Dispose ==
  /\ ~disposed
  /\ Do([AvailableCleanup(StaleCleanup(EffectCleanup(Begin(Cur, "dispose"))))
           EXCEPT !.disposed = TRUE])

\* window dispatches 'focus' / 'online' to the listener of this instance.
Focus ==
  /\ \E l \in listeners : l.ev = "focus"
  /\ LET s == rawHandler(Begin(Cur, "focus"))
         accepted == s.lastFocus # lastFocus \/ s.last.ops # <<>>
     IN Task(Saw(s, [seen EXCEPT !.at = now, !.accepted = accepted,
                                 !.acceptedAt = IF accepted THEN now ELSE @,
                                 !.acceptedKey = IF accepted THEN keyMemo.s ELSE @,
                                 !.prevAt = seen.at]))

Online ==
  /\ \E l \in listeners : l.ev = "online"
  /\ Task(Saw(localRefetch(Begin(Cur, "online")),
              [seen EXCEPT !.onlineAt = now, !.onlinePrevAt = seen.onlineAt]))

OtherKeys == {"A", "B"}

\* This instance listens to events of key k.
Heard(k) == \E l \in listeners : l.k = k /\ l.ev \in CacheEvents

\* Another party of the same cache asks for key k (src/src/Test.tsx calls
\* query of turbo-query directly).
OtherQuery == ~disposed /\ \E k \in OtherKeys : Heard(k) /\ Do(CacheQuery(Begin(Cur, "otherQuery"), k, TRUE).s)

\* The fetcher's promise of an in-flight fetch resolves or rejects.
FetchResolve ==
  \E k \in Strings, e \in ExpirationChoices :
    /\ cache.resolvers[k] # 0
    /\ Task(FetchEnd(Begin(Cur, "resolved"), FetchPromise(cache.resolvers[k], k), TRUE, e))

FetchReject ==
  \E k \in Strings :
    /\ cache.resolvers[k] # 0
    /\ Task(FetchEnd(Begin(Cur, "rejected"), FetchPromise(cache.resolvers[k], k), FALSE, 0))

Microtask ==
  /\ microQ # <<>>
  /\ Checkpoint(Drain(Begin(Cur, "microtask")))

\* A caller-supplied transition function runs the callback it was given.
Transition ==
  /\ deferredQ # <<>>
  /\ Do(RunThunk([Begin(Cur, "transition") EXCEPT !.deferredQ = Tail(@)], Head(deferredQ)))

Tick ==
  /\ now < MaxTime
  /\ Task([Begin(Cur, "tick") EXCEPT !.now = @ + 1])

Next ==
  \/ SetKey \/ Mutate \/ Refetch \/ Forget \/ Abort \/ Unsubscribe \/ Expiration \/ Dispose
  \/ Online \/ OtherQuery
  \/ FetchResolve \/ FetchReject \/ Microtask

Spec == Init /\ [][Next]_vars

\* The same binding with a transition function of the caller.
NextTransition == Next \/ Transition

SpecTransition == InitTransition /\ [][NextTransition]_vars

\* The binding with its calls recorded, the empty string among the keys.
NextLog ==
  \/ SetLogKey \/ Mutate \/ Refetch \/ Forget \/ Abort \/ Unsubscribe \/ Expiration
  \/ FetchResolve \/ FetchReject \/ Microtask

SpecLog == InitLog /\ [][NextLog]_vars

\* The same under every way of giving stale.
NextStale ==
  \/ SetStaleKey \/ Mutate \/ Refetch \/ Forget \/ Abort \/ Unsubscribe \/ Expiration
  \/ FetchResolve \/ FetchReject \/ Microtask

SpecStale == InitStale /\ [][NextStale]_vars

\* ------------------------------------------------------------------ properties
Active(key) == ~Falsy(key)

\* A fetch of key k is in flight in the cache.
Pending(k) == cache.resolvers[k] # 0

\* C1: the listeners of the previous key are removed before those of the next
\* key are created, so that at no time handlers of two different keys are
\* registered.
C1_OneKeyAtATime == \A l1, l2 \in listeners : l1.k = l2.k

\* The key went from A, whose fetch is still in flight, to B, and the six
\* listeners of B are in place.
C1_Witness ==
  /\ keyMemo = Str("B")
  /\ Pending("A")
  /\ Cardinality(listeners) = 6

\* C2: every live subscription or listener belongs to the active key; with no
\* key active, or after disposal, none remains.
C2_ListenersOfActiveKey ==
  \A l \in listeners : Active(keyMemo) /\ l.k = keyMemo.s /\ ~disposed

\* The key was active and subscribed to, and is now absent with nothing left.
C2_Witness ==
  /\ ~Active(keyMemo)
  /\ unsub.Mutations # NoHandle
  /\ unsub.FocusRefetch # NoHandle
  /\ listeners = {}

\* C3: a promise of another key than the current one is never given to the
\* cell, and no value fetched for another key is committed to the cell.
C3_NoPromiseOfAnotherKey ==
  [][/\ (cell'.pr # cell.pr /\ cell'.pr # NoPromise) => cell'.pr.k = keyMemo'.s
     /\ (cell'.value # cell.value /\ cell'.value.v = 0) => cell'.value.k = keyMemo'.s]_vars

\* C4: an item committed by the 'mutated' handler belongs to the key that is
\* active when it is committed.
C4_MutatedItemOfActiveKey ==
  [][(cell'.value # cell.value /\ cell'.value.v \in MutateValues) => cell'.value.k = keyMemo'.s]_vars

\* C5 as the code has it: a change of the key resets isRefetching, and the new
\* subscription to 'refetching' sets it again at once when a fetch of the new
\* key is in flight; so after the change the signal tells whether the new
\* key is being fetched, and it is false after a change to no key.
C5_FlagFollowsNewKey ==
  [][keyMemo' # keyMemo =>
       (isRefetching' <=> (Active(keyMemo') /\ cache'.resolvers[keyMemo'.s] # 0))]_vars

\* The key went from A, still being fetched, to B, which is not: the signal
\* is false.
C5_Witness ==
  /\ keyMemo = Str("B")
  /\ Pending("A")
  /\ ~Pending("B")
  /\ listeners # {}
  /\ ~isRefetching

\* C5 as stated: after every change of the key isRefetching is false.
C5_FalseAfterKeyChange == [][keyMemo' # keyMemo => ~isRefetching']_vars

\* C6 as stated, in the form a finite behaviour refutes: isRefetching does
\* not stay true once the fetch of the key has ended -- while the binding
\* lives, the signal is true only while a fetch of the current key is in
\* flight or a microtask is still to run.
C6_NeverStuck ==
  (isRefetching /\ ~disposed) => ((Active(keyMemo) /\ Pending(keyMemo.s)) \/ microQ # <<>>)

\* The subscription to 'refetching' of the current key is live.
Subscribed == Active(keyMemo) /\ Listener("refetching", keyMemo.s) \in listeners

\* C7 as the code has it: isRefetching becomes true only when the cache tells
\* the live subscription of a fetch of the current key in flight; refetch()
\* sets it when its query starts a fetch and the subscription is live; once
\* true it becomes false only when the key changes or that fetch ends.
C7_FlagFollowsAnnouncement ==
  [][/\ (~isRefetching /\ isRefetching') =>
          /\ Active(keyMemo')
          /\ cache'.resolvers[keyMemo'.s] # 0
          /\ Listener("refetching", keyMemo'.s) \in listeners'
     /\ (Refetch /\ Subscribed /\ cache'.fetches # cache.fetches) => isRefetching'
     /\ (isRefetching /\ ~isRefetching') =>
          (keyMemo' # keyMemo \/ cache'.resolvers[keyMemo.s] = 0)]_vars

\* The item of A is in the cache and a later fetch of A is in flight: the
\* signal is true.
C7_Witness ==
  /\ keyMemo = Str("A")
  /\ cache.items["A"].has
  /\ Pending("A")
  /\ Subscribed
  /\ isRefetching

\* C7 as stated: after refetch() with an active key isRefetching is true.
C7_TrueAfterRefetch == [][(Active(keyMemo) /\ Refetch) => isRefetching']_vars

\* The calls that act on the current key.
KeyedCalls == {"mutate", "refetch", "forget", "abort", "expiration"}

\* C8: with no key active, mutate, refetch, forget, abort and expiration call
\* nothing of the cache, change nothing of the binding and do not throw;
\* refetch resolves to undefined and expiration returns undefined.
C8_NoKeyNoOp ==
  [][(~Active(keyMemo) /\ last'.act \in KeyedCalls) =>
       /\ last'.ops = <<>>
       /\ ~last'.threw
       /\ UNCHANGED <<keyMemo, isRefetching, cell, unsub, cleanup, listeners, lastFocus,
                      cache, microQ, deferredQ, now, disposed>>
       /\ last'.act \in {"refetch", "expiration"} => last'.ret = "undefined"]_vars

\* refetch() was called with no key, while the cache still fetches A.
C8_Witness ==
  /\ keyMemo \in {Null, False, Undefined}
  /\ last.act = "refetch"
  /\ last.ret = "undefined"
  /\ Pending("A")

\* C9: when the accessor throws the key is the no-key value, nothing is
\* thrown to the caller, no subscription is made and no operation of the
\* cache is called.
C9_ThrowIsNoKey ==
  last.act = "keyThrows" =>
    /\ keyMemo = Null
    /\ ~last.threw
    /\ listeners = {}
    /\ last.ops = <<>>

\* The accessor threw after key A had been subscribed to.
C9_Witness ==
  /\ last.act = "keyThrows"
  /\ unsub.Mutations = Listener("mutated", "A")
  /\ keyMemo = Null
  /\ listeners = {}

\* The queries among the cache operations of the last call.
Queries == SelectSeq(last.ops, LAMBDA o : o.op = "query")

\* The call evaluated the accessor and the key became another one.
KeyChanged == last.act \in {"create", "keyChange", "keyThrows"}

\* stale as the loader's query gets it: the options' if given, else the
\* context's if given, else true.
LoaderStale ==
  IF options.stale # "undefined" THEN options.stale
  ELSE IF contextOptions.stale # "undefined" THEN contextOptions.stale
  ELSE "true"

\* C10 as the code has it: a change to a string key K makes the loader issue
\* exactly one query for K, with stale as the options or the context give it
\* and true only by default; a change to no key issues no query.
C10_OneQueryPerKeyChange ==
  KeyChanged =>
    IF keyMemo.t = "string"
      THEN Queries = << [op |-> "query", k |-> keyMemo.s,
                         arg |-> IF LoaderStale = "true" THEN "stale" ELSE "fresh"] >>
      ELSE Queries = <<>>

\* The key changed to A under stale: false of the options: one query, not
\* stale-tolerant.
C10_Witness ==
  /\ last.act = "keyChange"
  /\ keyMemo = Str("A")
  /\ options.stale = "false"
  /\ Queries = << [op |-> "query", k |-> "A", arg |-> "fresh"] >>

\* C10 as stated: the one query is stale-tolerant under every configuration.
C10_OneStaleQueryPerKeyChange ==
  KeyChanged =>
    IF keyMemo.t = "string"
      THEN Queries = << [op |-> "query", k |-> keyMemo.s, arg |-> "stale"] >>
      ELSE Queries = <<>>

\* The binding with the clock and the window's events, its calls recorded.
NextFocus ==
  \/ SetFocusKey \/ Refetch \/ Unsubscribe \/ Focus \/ Tick
  \/ FetchResolve \/ FetchReject \/ Microtask

SpecFocus == InitFocus /\ [][NextFocus]_vars

NextConnect ==
  \/ SetFocusKey \/ Refetch \/ Unsubscribe \/ Online \/ Tick
  \/ FetchResolve \/ FetchReject \/ Microtask

SpecConnect == InitConnect /\ [][NextConnect]_vars

\* The queries the cache was asked in the step that ends in the next state.
QueriesNext == SelectSeq(last'.ops, LAMBDA o : o.op = "query")

\* The step is a 'focus' event of window reaching the listener of the binding.
FocusEvent == last'.act = "focus" /\ seen'.at = now

\* C11: of two 'focus' events within focusInterval of each other at most one
\* is accepted: an event is accepted, and refetches, only if no event was
\* accepted within the interval before it.
C11_AtMostOneWithinInterval ==
  [][FocusEvent =>
       /\ Len(QueriesNext) <= 1
       /\ Len(QueriesNext) = 1 => seen'.accepted
       /\ (seen'.accepted /\ seen.acceptedAt # -1) => now - seen.acceptedAt > focusInterval]_vars

\* A 'focus' event was accepted, and the next one, within the interval, was not.
C11_Witness ==
  /\ last.act = "focus"
  /\ seen.acceptedAt # -1
  /\ seen.prevAt = seen.acceptedAt
  /\ seen.at - seen.prevAt <= focusInterval
  /\ ~seen.accepted
  /\ Queries = <<>>

\* The time the throttle counts from: the last accepted 'focus' event, or
\* the creation of the binding.
ThrottleFrom == IF seen.acceptedAt # -1 THEN seen.acceptedAt ELSE 0

\* C12 as the code has it: a 'focus' event is accepted exactly when more than
\* focusInterval has passed since the last accepted one, or since the creation
\* of the binding; an accepted event calls refetch once.  So of two events more
\* than focusInterval apart the later one is accepted; the earlier one is
\* accepted only if it comes more than focusInterval after the one accepted
\* before it, or after the creation.
C12_AcceptedWhenIntervalPassed ==
  [][FocusEvent =>
       /\ seen'.accepted <=> now - ThrottleFrom > focusInterval
       /\ seen'.accepted <=> Len(QueriesNext) = 1
       /\ (seen.at # -1 /\ now - seen.at > focusInterval) => seen'.accepted]_vars

\* Two 'focus' events more than focusInterval apart: the later one is
\* accepted and has called refetch once.
C12_Witness ==
  /\ last.act = "focus"
  /\ seen.prevAt # -1
  /\ seen.at - seen.prevAt > focusInterval
  /\ seen.accepted
  /\ Len(Queries) = 1

\* C12 as stated: two 'focus' events more than focusInterval apart are both
\* accepted.
C12_BothAcceptedWhenApart ==
  [][(FocusEvent /\ seen.at # -1 /\ now - seen.at > focusInterval) =>
       (seen.accepted /\ seen'.accepted)]_vars

\* C13: when refetchOnFocus is false, by the options or by the context, no
\* 'focus' listener is attached, and no 'focus' event reaches the binding,
\* moves lastFocus or makes it ask the cache.
C13_NoFocusRefetchWhenOff ==
  /\ [](~refetchOnFocus => \A l \in listeners : l.ev # "focus")
  /\ [][~refetchOnFocus => (last'.act # "focus" /\ lastFocus' = lastFocus /\ seen'.at = seen.at)]_vars

\* refetchOnFocus is false by the context only; the key is subscribed to and
\* the clock is past the focus interval.
C13_Witness ==
  /\ options.refetchOnFocus = "undefined"
  /\ contextOptions.refetchOnFocus = "false"
  /\ Active(keyMemo)
  /\ Listener("mutated", keyMemo.s) \in listeners
  /\ now - lastFocus > focusInterval

\* The step is an 'online' event of window reaching the listener of the binding.
OnlineEvent == last'.act = "online"

\* C14: with refetchOnConnect on, every 'online' event that reaches the
\* binding calls refetch once -- one query for the current key -- however
\* close to the one before and whatever the focus throttle; with
\* refetchOnConnect false no 'online' listener is attached and no event
\* refetches.
C14_OnlineRefetchesEachTime ==
  /\ [](~refetchOnConnect => \A l \in listeners : l.ev # "online")
  /\ [][OnlineEvent =>
          /\ refetchOnConnect
          /\ Active(keyMemo)
          /\ Len(QueriesNext) = 1
          /\ QueriesNext[1].k = keyMemo.s
          /\ lastFocus' = lastFocus]_vars

\* Two 'online' events at the same instant: the second has refetched too.
C14_Witness ==
  /\ last.act = "online"
  /\ seen.onlinePrevAt = seen.onlineAt
  /\ seen.onlineAt = now
  /\ Len(Queries) = 1

\* refetch() called by the caller and by the two window triggers, under every
\* way of giving stale.
NextRefetch ==
  \/ SetFocusKey \/ Refetch \/ Focus \/ Online \/ Tick
  \/ FetchResolve \/ Microtask

SpecRefetch == InitRefetch /\ [][NextRefetch]_vars

\* createStale and its interval while time passes, keys change and fetches
\* end with an expiration.
NextExpiry ==
  \/ SetExpiryKey \/ CreateStale \/ StalePoll \/ Tick \/ Forget \/ Dispose
  \/ FetchResolve \/ Microtask

SpecExpiry == InitExpiry /\ [][NextExpiry]_vars

\* The expiration the cache records for the current key, -1 if none.
E == IF Active(keyMemo) THEN CacheExpiration(Cur, keyMemo.s) ELSE -1

\* The signals were just computed: createStale was called or its interval fired.
Computed == staleness.on /\ last.act \in {"createStale", "poll"}

\* C16 as the code has it: at the creation of createStale and at every fire of
\* its interval, for an active key with expiration E: isStale is true exactly
\* when now > E, and staleIn is E - now while now <= E (0 at E) and 0 after E.
C16_StaleAfterExpiration ==
  (Computed /\ E # -1) =>
    /\ staleness.isStale = (now > E)
    /\ staleness.staleIn = IF now <= E THEN E - now ELSE 0

\* The interval fires at the very time of the expiration, and before it.
C16_Witness ==
  /\ last.act = "poll"
  /\ E = now
  /\ ~staleness.isStale
  /\ staleness.staleIn = 0

\* C16 as stated: isStale is true with staleIn = 0 at E and after E.
C16_StaleFromExpirationOn ==
  (Computed /\ E # -1) =>
    /\ now < E => (~staleness.isStale /\ staleness.staleIn = E - now)
    /\ now >= E => (staleness.isStale /\ staleness.staleIn = 0)

\* C17: when the active key changes from K1 to K2 while createStale is in
\* use, isStale and staleIn are recomputed in the same step from the
\* expiration of K2: true and 0 if K2 has none, false and the time left
\* before it, true and 0 after it.
C17_ReinitializedOnKeyChange ==
  [][(/\ staleness.on
      /\ Active(keyMemo)
      /\ last'.act = "keyChange"
      /\ Active(keyMemo'))
     => /\ E' = -1 => (staleness'.isStale /\ staleness'.staleIn = 0)
        /\ (E' # -1 /\ now' < E') => (~staleness'.isStale /\ staleness'.staleIn = E' - now')
        /\ (E' # -1 /\ now' >= E') => staleness'.staleIn = 0
        /\ (E' # -1 /\ now' > E') => staleness'.isStale]_vars

\* unsubscribe() among key changes, refetches and the disposal of the owner.
NextUnsubscribe ==
  \/ SetExpiryKey \/ Unsubscribe \/ Refetch \/ Online \/ Dispose
  \/ FetchResolve \/ FetchReject \/ Microtask

SpecUnsubscribe == InitUnsubscribe /\ [][NextUnsubscribe]_vars

\* C18: unsubscribe() never throws and leaves no listener of the instance,
\* whenever it is called (also after a key change, with no key, after the
\* cleanup of the effect); a second call right after the first changes nothing.
C18_UnsubscribeIdempotent ==
  /\ [](last.act = "unsubscribe" => (listeners = {} /\ ~last.threw))
  /\ [][(last.act = "unsubscribe" /\ last'.act = "unsubscribe")
        => UNCHANGED <<keyMemo, isRefetching, cell, unsub, cleanup, listeners, lastFocus,
                       cache, microQ, deferredQ, now, disposed, staleness, seen>>]_vars

\* unsubscribe() was called after the owner was disposed, the handles still
\* those of key A.
C18_Witness ==
  /\ last.act = "unsubscribe"
  /\ disposed
  /\ unsub.Mutations = Listener("mutated", "A")
  /\ listeners = {}

\* The calls of the caller on keys A and B and no key, with and without
\* startTransition.
NextCalls ==
  \/ SetExpiryKey \/ Mutate \/ Forget \/ Refetch \/ Unsubscribe
  \/ FetchResolve \/ Microtask

SpecCalls == InitUnsubscribe /\ [][NextCalls]_vars

\* C19: mutate(v) with an active key K calls mutate(K, v) of the cache once,
\* which stores an entry for K, and writes the cell only through the 'mutated'
\* handler: nothing of the cell changes when the instance has no 'mutated'
\* listener; with the listener the item (K, v) is committed at once when no
\* transition is used, and handed to startTransition otherwise, the cell
\* unchanged until that commit runs and holding the item (K, v) once it has.
C19_MutateThroughCache ==
  [][/\ (Active(keyMemo) /\ last'.act = "mutate") =>
          \E v \in MutateValues :
            LET it == [k |-> keyMemo.s, v |-> v]
                th == [t |-> "mutate", p |-> NoPromise, item |-> it]
            IN /\ last'.ops = << [op |-> "mutate", k |-> keyMemo.s, arg |-> "value"] >>
               /\ cache'.items[keyMemo.s].has
               /\ IF Listener("mutated", keyMemo.s) \notin listeners
                    THEN cell' = cell /\ microQ' = microQ
                  ELSE IF transition = "undefined"
                    THEN cell' = [cell EXCEPT !.value = it] /\ microQ' = microQ
                  ELSE cell' = cell /\ microQ' = Append(microQ, th)
     /\ (last'.act = "microtask" /\ Len(microQ) = 1 /\ microQ[1].t = "mutate") =>
          cell' = [cell EXCEPT !.value = microQ[1].item]]_vars

\* The commit of a mutated item of A has run under startTransition.
C19_Witness ==
  /\ last.act = "microtask"
  /\ transition = "startTransition"
  /\ keyMemo = Str("A")
  /\ cell.value = [k |-> "A", v |-> 1]

NextResolve ==
  \/ SetFocusKey \/ Mutate \/ Refetch \/ Transition
  \/ FetchResolve \/ Microtask

SpecResolve == InitResolve /\ [][NextResolve]_vars

\* transition as it is given: by the options if they give one, else by the
\* context.
TransitionGiven ==
  IF options.transition # "undefined" THEN options.transition ELSE contextOptions.transition

\* C21: the 'mutated' item of mutate() is committed as the transition option
\* says, the options' value before the context's: at once when it is false,
\* by the function given when it is a function, by startTransition (a
\* microtask) when it is true or given nowhere.
C21_TransitionResolved ==
  [][(/\ last'.act = "mutate"
      /\ Active(keyMemo)
      /\ Listener("mutated", keyMemo.s) \in listeners)
     => \E v \in MutateValues :
          LET it == [k |-> keyMemo.s, v |-> v]
              th == [t |-> "mutate", p |-> NoPromise, item |-> it]
          IN IF TransitionGiven = "false"
               THEN cell' = [cell EXCEPT !.value = it] /\ UNCHANGED <<microQ, deferredQ>>
             ELSE IF TransitionGiven = "fn"
               THEN deferredQ' = Append(deferredQ, th) /\ UNCHANGED <<cell, microQ>>
             ELSE microQ' = Append(microQ, th) /\ UNCHANGED <<cell, deferredQ>>]_vars

\* mutate() was committed at once: transition is false in the options and a
\* function in the context.
C21_Witness ==
  /\ last.act = "mutate"
  /\ options.transition = "false"
  /\ contextOptions.transition = "fn"
  /\ cell.value = [k |-> "A", v |-> 1]
  /\ microQ = <<>>
  /\ deferredQ = <<>>

\* The calls and the window events under every way of giving one option,
\* the options object rewritten after the binding was made.
NextOptions ==
  \/ SetFocusKey \/ SetOptions \/ Mutate \/ Refetch \/ Forget \/ Abort \/ Expiration
  \/ Focus \/ Microtask

SpecOptions == InitOptions /\ [][NextOptions]_vars

\* What the binding is to use for option f: what the options gave when it
\* was created, else what the context gives, else the default.
Layered(f, dflt) ==
  IF given[f] # NoOptions[f] THEN given[f]
  ELSE IF contextOptions[f] # NoOptions[f] THEN contextOptions[f]
  ELSE dflt

\* C22: whatever is written into the options object after the binding was
\* made, every operation of the cache the binding calls is the one of the
\* instance given by the options at creation, else by the context, else the
\* default instance; the window listeners are there while the key is
\* subscribed exactly when refetchOnFocus / refetchOnConnect, resolved in
\* that order with default true, are true; a 'focus' event refetches exactly
\* when more than focusInterval, resolved so with default 5000, has passed
\* since lastFocus; the 'mutated' item is committed at once exactly when
\* transition, resolved so, is false.
C22_ResolvedOnceInOrder ==
  /\ [](\A e \in last.by :
          e.by = IF given.turbo # "undefined" THEN "options"
                 ELSE IF contextOptions.turbo # "undefined" THEN "context"
                 ELSE "default")
  /\ [](\A k \in Strings :
          Listener("mutated", k) \in listeners =>
            /\ Listener("focus", k) \in listeners <=> Layered("refetchOnFocus", "true") = "true"
            /\ Listener("online", k) \in listeners <=> Layered("refetchOnConnect", "true") = "true")
  /\ [][/\ last'.act = "focus" =>
            (last'.ops # <<>> <=> now - lastFocus > Layered("focusInterval", DefaultFocusInterval))
        /\ (/\ last'.act = "mutate"
            /\ Active(keyMemo)
            /\ Listener("mutated", keyMemo.s) \in listeners)
           => IF Layered("transition", "true") = "false"
                THEN cell'.value.k = keyMemo.s /\ microQ' = microQ
                ELSE cell' = cell /\ Len(microQ') = Len(microQ) + 1]_vars

\* After the options object was rewritten, mutate() still went to the
\* instance of the context.
C22_Witness ==
  /\ last.act = "mutate"
  /\ given = NoOptions
  /\ options = AllGiven
  /\ contextOptions.turbo = "given"
  /\ last.by = {[op |-> "mutate", by |-> "context"]}

\* The fetch of a key this instance listens to has failed in this step: its
\* fetcher's promise rejected, or the rejection of an aborted fetch arrived.
ErrorHeard ==
  \/ /\ last'.act = "rejected"
     /\ \E k \in Strings : /\ Listener("error", k) \in listeners
                            /\ cache.resolvers[k] # 0
                            /\ cache'.resolvers[k] = 0
  \/ /\ last'.act = "microtask"
     /\ \E i \in DOMAIN microQ : /\ microQ[i].t = "reject"
                                  /\ Listener("error", microQ[i].p.k) \in listeners

\* C23: when the fetch of the bound key fails, isRefetching is false after
\* the step that delivers the 'error' event, and neither that step nor any
\* run of the microtasks calls a query or starts a fetch.
C23_ErrorClearsFlagNoRetry ==
  [][/\ ErrorHeard => ~isRefetching'
     /\ last'.act \in {"rejected", "microtask"} =>
          /\ \A i \in DOMAIN last'.ops : last'.ops[i].op # "query"
          /\ cache'.fetches = cache.fetches
          /\ \A k \in Strings : cache'.resolvers[k] \in {0, cache.resolvers[k]}]_vars

\* The load of A has failed: the cell has the error, the flag is down and
\* nothing is in flight.
C23_Witness ==
  /\ last.act = "rejected"
  /\ keyMemo = Str("A")
  /\ Listener("error", "A") \in listeners
  /\ cell.error
  /\ ~isRefetching
  /\ ~Pending("A")

\* refetch() by a caller that keeps the promise, while fetches end well or
\* badly or are aborted.
NextAwait ==
  \/ SetLogKey \/ RefetchAwait \/ Abort
  \/ FetchResolve \/ FetchReject \/ Microtask

SpecAwait == InitLog /\ [][NextAwait]_vars

\* The fetch of k is in flight and the caller's promise awaits it.
HeldFetch(k) == cache.resolvers[k] # 0 /\ held = FetchPromise(cache.resolvers[k], k)

\* C24: refetch() with an active key K makes one query for K and returns a
\* promise that settles as the promise of that query does: it is resolved
\* with what the cache holds for K when the cache answers at once, it
\* resolves when the fetch in flight for K resolves and is rejected when that
\* fetch is rejected or aborted; refetch() itself throws nothing.
C24_RefetchSettlesWithQuery ==
  /\ []((last.act = "refetchAwait" /\ Active(keyMemo)) =>
          /\ last.ret = "promise"
          /\ ~last.threw
          /\ Len(Queries) = 1
          /\ Queries[1].k = keyMemo.s
          /\ held = ResolvedPromise(keyMemo.s) \/ HeldFetch(keyMemo.s))
  /\ [][/\ \A k \in Strings :
            /\ (HeldFetch(k) /\ last'.act = "resolved" /\ cache'.resolvers[k] = 0)
                 => held' = ResolvedPromise(k)
            /\ (HeldFetch(k) /\ last'.act = "rejected" /\ cache'.resolvers[k] = 0)
                 => held' = RejectedPromise(k)
        /\ (/\ last'.act = "microtask"
            /\ \E i \in DOMAIN microQ : microQ[i].t = "reject" /\ microQ[i].p = held)
           => held' = RejectedPromise(held.k)]_vars

\* The fetch behind the promise of refetch() was rejected: the caller holds
\* a rejected promise.
C24_Witness ==
  /\ last.act = "rejected"
  /\ keyMemo = Str("A")
  /\ held = RejectedPromise("A")

\* C25 as the code has it: a 'focus' event that reaches the binding is
\* accepted exactly when more than focusInterval has passed since lastFocus,
\* which is the time of creation until an event is accepted: then lastFocus
\* becomes the time of the event and refetch is called once for the key;
\* otherwise the event changes nothing and asks nothing of the cache.
C25_AcceptedByLastFocus ==
  [][FocusEvent =>
       IF now - lastFocus > focusInterval
         THEN /\ lastFocus' = now
              /\ Len(QueriesNext) = 1
              /\ QueriesNext[1].k = keyMemo.s
         ELSE /\ last'.ops = <<>>
              /\ UNCHANGED <<keyMemo, isRefetching, cell, unsub, cleanup, listeners, lastFocus,
                             cache, microQ, deferredQ, now, disposed, staleness, held>>]_vars

\* The first 'focus' event came one interval after the creation and was
\* dropped.
C25_Witness ==
  /\ last.act = "focus"
  /\ focusInterval = 1
  /\ seen.prevAt = -1
  /\ seen.at = 1
  /\ seen.acceptedAt = -1
  /\ lastFocus = 0
  /\ Queries = <<>>

\* C25 as stated: while no 'focus' event has been accepted yet, an event is
\* accepted whatever the time since the creation.
C25_FirstEventAccepted ==
  [][(FocusEvent /\ seen.acceptedAt = -1) =>
       (lastFocus' = now /\ Len(QueriesNext) = 1)]_vars

\* Both window events, the calls of the caller and the events of the cache
\* while time passes.
NextStamp ==
  \/ SetFocusKey \/ Refetch \/ Unsubscribe \/ Focus \/ Online \/ Tick
  \/ FetchResolve \/ Microtask

SpecStamp == InitFocus /\ [][NextStamp]_vars

\* C26: lastFocus changes only in a step that is a 'focus' event more than
\* focusInterval after lastFocus, and then to the time of the event; a dropped
\* 'focus' event, an 'online' event, refetch(), unsubscribe(), a change of
\* the key, the end of a fetch and the microtasks leave it as it was.
C26_LastFocusOnlyWhenAccepted ==
  [][lastFocus' # lastFocus =>
       /\ FocusEvent
       /\ now - lastFocus > focusInterval
       /\ lastFocus' = now]_vars

\* An 'online' event refetched after time had passed, and lastFocus is still
\* the time of creation.
C26_Witness ==
  /\ last.act = "online"
  /\ Len(Queries) = 1
  /\ now > 0
  /\ lastFocus = 0

\* The handlers of the cache's events: another party of the cache asks for
\* the keys, the caller refetches and aborts, fetches end.
NextHandlers ==
  \/ SetExpiryKey \/ OtherQuery \/ Refetch \/ Abort
  \/ FetchResolve \/ FetchReject \/ Microtask

SpecHandlers == InitUnsubscribe /\ [][NextHandlers]_vars

\* A fetch of k starts in this step while the instance listens to
\* 'refetching' of k: the event reaches its handler.
Announced(k) ==
  /\ cache.resolvers[k] = 0
  /\ cache'.resolvers[k] # 0
  /\ Listener("refetching", k) \in listeners

\* C27: whenever a fetch of the bound key is announced to the instance,
\* isRefetching is true afterwards.  When a query of another party starts
\* the fetch, the 'refetching' handler hands the promise of the fetch
\* to the cell's refetch exactly when the cell is not loading: at once
\* without a transition, as a queued commit with startTransition; a cell that
\* is loading, and its queue, stay as they were.  When the key changes to one
\* being fetched, the flag is set by the new subscription and no refetch is
\* queued for the cell, which is loading.
C27_RefetchingFedUnlessLoading ==
  [][/\ \A k \in Strings : Announced(k) => isRefetching'
     /\ \A k \in Strings :
          (last'.act = "otherQuery" /\ Announced(k)) =>
            LET p == FetchPromise(cache'.resolvers[k], k)
            IN /\ isRefetching'
               /\ IF cell.pr # NoPromise THEN cell' = cell /\ microQ' = microQ
                  ELSE IF transition = "undefined"
                    THEN IF cell.scheduled THEN cell' = cell ELSE cell'.pr = p
                  ELSE /\ cell' = cell
                       /\ microQ' = Append(microQ, [t |-> "refetch", p |-> p, item |-> NoItem])
     /\ (/\ last'.act = "keyChange"
         /\ Active(keyMemo')
         /\ cache'.resolvers[keyMemo'.s] # 0
         /\ Listener("refetching", keyMemo'.s) \in listeners')
        => /\ isRefetching'
           /\ \A i \in DOMAIN microQ' : i > Len(microQ) => microQ'[i].t # "refetch"]_vars

\* A fetch of A was announced while the cell was still waiting for the one
\* aborted before: the flag is up and the cell waits for what it waited for.
C27_Witness ==
  /\ last.act = "otherQuery"
  /\ isRefetching
  /\ Pending("A")
  /\ cell.pr # NoPromise
  /\ cell.pr # FetchPromise(cache.resolvers["A"], "A")
  /\ \A i \in DOMAIN microQ : microQ[i].t # "refetch"

\* C28: the loader asks the cache exactly when it is run without a refetch
\* promise: the load for a new key makes one query, the commits of refetch
\* promises (in a microtask or in the caller's transition function) make
\* none, and the cell then waits for the very promise it was given; so a
\* refetch() with an active key makes one query in all.
C28_OneQueryPerRefetch ==
  /\ []((last.act \in {"create", "keyChange"}) =>
          Len(Queries) = IF NoLookup(keyMemo) THEN 0 ELSE 1)
  /\ []((last.act = "refetch" /\ last.ret = "promise") => Len(Queries) = 1)
  /\ []((last.act \in {"microtask", "transition"}) => Len(Queries) = 0)
  /\ [][(/\ deferredQ # <<>>
         /\ last'.act = "transition"
         /\ Head(deferredQ).t = "refetch"
         /\ ~cell.scheduled
         /\ ~NoLookup(keyMemo))
        => cell'.pr = Head(deferredQ).p]_vars

\* Without a transition refetch() has made its query, the handler of
\* 'refetching' and refetch() itself have called the cell's refetch, and the
\* cell waits for the fetch the query started.
C28_Witness ==
  /\ last.act = "refetch"
  /\ transition = "undefined"
  /\ Len(Queries) = 1
  /\ cell.scheduled
  /\ cell.pr = FetchPromise(2, "A")

\* The commits into the cell that wait for their turn
Commits(q) == SelectSeq(q, LAMBDA th : th.t \in {"refetch", "mutate"})

\* C29: a commit into the cell waits nowhere but where the resolved
\* transition puts it: nowhere when transition is disabled, in the microtask
\* queue with startTransition, with the caller's function otherwise.  A
\* refetch() with an active key, when transition is disabled, leaves the cell
\* waiting for the promise of the announced fetch or of its query before it
\* returns; with a transition it leaves the cell as it is and hands over the
\* commit of the 'refetching' handler, if the fetch was announced to a cell
\* not loading, and then its own.  A mutate() with a transition leaves the
\* cell as it is, and without one the cell has the item when it returns.
C29_CommitsThroughTransition ==
  /\ [](/\ transition = "undefined" => Commits(microQ) = <<>> /\ Commits(deferredQ) = <<>>
        /\ transition = "startTransition" => Commits(deferredQ) = <<>>
        /\ transition = "fn" => Commits(microQ) = <<>>)
  /\ [][/\ (last'.act = "refetch" /\ Active(keyMemo)) =>
            LET k == keyMemo.s
                p == last'.awaits
                hp == FetchPromise(cache'.resolvers[k], k)
                ann == Announced(k) /\ cell.pr = NoPromise
                new == (IF ann THEN << [t |-> "refetch", p |-> hp, item |-> NoItem] >> ELSE <<>>)
                         \o << [t |-> "refetch", p |-> p, item |-> NoItem] >>
            IN IF transition = "undefined"
                 THEN IF cell.scheduled THEN cell' = cell
                      ELSE cell'.pr = IF ann THEN hp ELSE p
               ELSE /\ cell' = cell
                    /\ IF transition = "startTransition"
                         THEN microQ' = microQ \o new
                         ELSE deferredQ' = deferredQ \o new
        /\ (/\ last'.act = "mutate"
            /\ Active(keyMemo)
            /\ Listener("mutated", keyMemo.s) \in listeners)
           => IF transition = "undefined"
                THEN cell'.value.k = keyMemo.s /\ cell'.value.v \in MutateValues
                ELSE cell' = cell]_vars

\* The caller's transition function has run the commit of a refetch() that
\* found the item in the cache.
C29_Witness ==
  /\ last.act = "transition"
  /\ transition = "fn"
  /\ cell.scheduled
  /\ cell.pr = ResolvedPromise("A")

\* A fetch of k has neither resolved nor failed: the cache has it as the
\* fetch of k, or the caller of refetch() still waits for its promise.
InFlight(k) ==
  \/ Pending(k)
  \/ held.st = "pending" /\ held.k = k

\* C30 as stated: while the binding listens to the events of its key K and a
\* fetch of K is in flight, isRefetching is true; the end of one request for
\* K does not clear it while another one for K is in flight.
C30_TrueWhileInFlight ==
  (Subscribed /\ InFlight(keyMemo.s)) => isRefetching

\* The intervals of createStale and createFocusAvailable among key changes
\* and the disposal of the owner.
NextTimers ==
  \/ SetExpiryKey \/ CreateStale \/ StalePoll \/ CreateFocusAvailable \/ AvailablePoll
  \/ Dispose \/ FetchResolve \/ Microtask

SpecTimers == InitExpiry /\ [][NextTimers]_vars

\* C31: createStale has at most one interval set at any time, and it is the
\* one of the current key: the interval of the key before is cleared when
\* the key changes; createFocusAvailable has at most one; once the owner is
\* disposed neither has any.
C31_AtMostOneTimer ==
  /\ staleness.timers <= 1
  /\ available.timers <= 1
  /\ staleness.timers > 0 => staleness.key = keyMemo
  /\ disposed => (staleness.timers = 0 /\ available.timers = 0)

\* Both were in use, the key went to B, then the owner was disposed.
C31_Witness ==
  /\ last.act = "dispose"
  /\ staleness.on
  /\ available.on
  /\ staleness.key = Str("B")
  /\ keyMemo = Str("B")
  /\ cache.fetches = 2

\* The calls are recorded; key A or no key; the throttle of 'focus' is
\* short, or below zero.
InitCountdown ==
  /\ options \in {[NoOptions EXCEPT !.focusInterval = t] :
                    t \in FocusIntervalChoices \cup {NoThrottle}}
  /\ contextOptions = NoOptions
  /\ \E k \in FocusKeyChoices : Created(Create(k, TRUE))

\* createStale and createFocusAvailable with their intervals, while time
\* passes, the window gets the focus, the key changes and fetches end with
\* an expiration.
NextCountdown ==
  \/ SetFocusKey \/ CreateStale \/ StalePoll \/ CreateFocusAvailable \/ AvailablePoll
  \/ Focus \/ Tick \/ FetchResolve \/ Microtask

SpecCountdown == InitCountdown /\ [][NextCountdown]_vars

Availability == IF focusInterval - (now - lastFocus) > 0 THEN focusInterval - (now - lastFocus) ELSE 0

\* C33 as stated: when createFocusAvailable is called and whenever its
\* interval fires, isAvailable is the test the 'focus' handler makes, now -
\* lastFocus > focusInterval, and availableIn is what is left of
\* focusInterval since lastFocus, floored at zero.
C33_AvailableAsHandlerTests ==
  (last.act \in {"createFocusAvailable", "availablePoll"}) =>
    /\ available.isAvailable = (now - lastFocus > focusInterval)
    /\ available.availableIn = Availability

\* C34 as stated: a key is active exactly when it is a string, the empty
\* string too: after a change of the key the binding listens to the four
\* events of a string key and to nothing without one, and mutate, refetch,
\* forget, abort and expiration call the cache for a string key and call
\* nothing without one.
C34_EveryStringIsActive ==
  [][/\ last'.act = "keyChange" =>
          IF keyMemo'.t = "string"
            THEN \A ev \in CacheEvents : Listener(ev, keyMemo'.s) \in listeners'
            ELSE listeners' = {}
     /\ last'.act \in KeyedCalls =>
          IF keyMemo.t = "string"
            THEN last'.ops # <<>> /\ last'.ops[1].k = keyMemo.s
            ELSE last'.ops = <<>>]_vars

\* C35: a fire of the interval of createStale that finds no key, or no
\* expiration for the key, leaves isStale and staleIn as they were.
C35_PollWithoutExpirationKeeps ==
  [][(last'.act = "poll" /\ E = -1) => staleness' = staleness]_vars

\* The item of the key was forgotten after the signals had seen its
\* expiration ahead; the interval fired, and they still say not stale, one
\* unit left.
C35_Witness ==
  /\ last.act = "poll"
  /\ Active(keyMemo)
  /\ E = -1
  /\ ~staleness.isStale
  /\ staleness.staleIn = 1

\* What the effect subscribes to for key k
SubscriptionSet(k) ==
  {Listener(ev, k) : ev \in CacheEvents}
    \cup (IF refetchOnFocus THEN {Listener("focus", k)} ELSE {})
    \cup (IF refetchOnConnect THEN {Listener("online", k)} ELSE {})

\* C36: unsubscribe() removes the listeners the binding has, which are those
\* of the current key, and changes no key; a change of the key to an active
\* key, right after unsubscribe() or at any other time, leaves the binding
\* with the whole subscription set of the new key.
C36_ResubscribedOnKeyChange ==
  [][/\ last'.act = "unsubscribe" =>
          /\ listeners' = {}
          /\ \A l \in listeners : l.k = keyMemo.s
          /\ keyMemo' = keyMemo
     /\ (last'.act = "keyChange" /\ Active(keyMemo')) =>
          listeners' = SubscriptionSet(keyMemo'.s)]_vars

\* unsubscribe() was called and the key then went to B: the six listeners of
\* B are in place.
C36_Witness ==
  /\ last.act = "keyChange"
  /\ last.unsubscribed
  /\ keyMemo = Str("B")
  /\ listeners = SubscriptionSet("B")
  /\ Cardinality(listeners) = 6

\* The calls are recorded; keys A and B, and no key; the throttle of 'focus'
\* is short.
InitThrottle ==
  /\ options \in {[NoOptions EXCEPT !.focusInterval = t] : t \in FocusIntervalChoices}
  /\ contextOptions = NoOptions
  /\ \E k \in ExpiryKeyChoices : Created(Create(k, TRUE))

\* 'focus' events while time passes and the key changes.
NextThrottle ==
  \/ SetExpiryKey \/ Focus \/ Tick \/ FetchResolve \/ Microtask

SpecThrottle == InitThrottle /\ [][NextThrottle]_vars

\* C37: lastFocus is left as it is by a change of the key, and a 'focus'
\* event within focusInterval of the last accepted one is dropped, without a
\* query, under whichever key that one was accepted.
C37_ThrottleAcrossKeys ==
  [][/\ keyMemo' # keyMemo => lastFocus' = lastFocus
     /\ (FocusEvent /\ seen.acceptedAt # -1 /\ now - seen.acceptedAt <= focusInterval) =>
          /\ ~seen'.accepted
          /\ lastFocus' = lastFocus
          /\ QueriesNext = <<>>]_vars

\* A 'focus' event was accepted under key A; the key went to B, and the
\* event that came within focusInterval was dropped.
C37_Witness ==
  /\ last.act = "focus"
  /\ keyMemo = Str("B")
  /\ seen.at = now
  /\ ~seen.accepted
  /\ seen.acceptedKey = "A"
  /\ lastFocus = seen.acceptedAt
  /\ now - lastFocus <= focusInterval

\* C38 as stated: from the call of createFocusAvailable on, isAvailable is
\* true only with availableIn at zero.
C38_AvailableMeansNothingLeft ==
  (available.on /\ available.isAvailable) => available.availableIn = 0

\* The last call was refetch(), by the caller or by a window trigger.
Refetched == last.act \in {"refetch", "focus", "online"}

\* stale as the query of refetch() gets it: the options' if given, else the
\* context's if given, else false.
RefetchStale ==
  IF options.stale # "undefined" THEN options.stale
  ELSE IF contextOptions.stale # "undefined" THEN contextOptions.stale
  ELSE "false"

\* C15 as the code has it: refetch() makes at most one query, for the current
\* key, with stale taken from the options if given, else from the context if
\* given, and false only by default.
C15_RefetchQueryStale ==
  Refetched =>
    /\ Len(Queries) <= 1
    /\ \A i \in DOMAIN Queries :
         Queries[i] = [op |-> "query", k |-> keyMemo.s,
                       arg |-> IF RefetchStale = "true" THEN "stale" ELSE "fresh"]

\* An 'online' event under stale: true of the context: the query of refetch()
\* is stale-tolerant.
C15_Witness ==
  /\ last.act = "online"
  /\ options.stale = "undefined"
  /\ contextOptions.stale = "true"
  /\ Queries = << [op |-> "query", k |-> keyMemo.s, arg |-> "stale"] >>

\* C15 as stated: every query of refetch() has stale = false.
C15_RefetchQueryNeverStale ==
  Refetched => \A i \in DOMAIN Queries : Queries[i].arg = "fresh"

====
